---- MODULE Spec2Model ----
(***************************************************************************)
(* acastaway: a paginated read API in front of the Acast feed service,     *)
(* with a response cache whose cache name carries a per-show timestamp     *)
(* (src/main.ts).  The model covers the timestamp map, the response cache, *)
(* the upstream feed, and the HTTP handlers with their suspension points.  *)
(***************************************************************************)
EXTENDS Integers, Sequences, FiniteSets, TLC

\* ------------------------------------------------------------------ bounds
MaxClock == 2        \* Date.now() takes the values 1..MaxClock
MaxAdd == 1          \* episodes published upstream per show
MaxReq == 2          \* requests suspended at an await at the same time
MaxRequests == 4     \* requests the server receives in one run
BaseEpisodes == 2    \* episodes of a show before anything is published

\* -------------------------------------------------------- program constants
DefaultPage == 1
DefaultLimit == 10
StatusOk == 200
StatusNoContent == 204
StatusBadRequest == 400
StatusNotFound == 404
StatusServerError == 500

\* The shows invalidated by path (POST /:id, DELETE /:id) or by webhook.
Resources == {"x", "y"}

\* The show whose history is kept (the handlers treat all shows alike), and
\* the shows the model's clients read (GET /:id, GET /debug/:id).
Watched == "x"
ReadShows == {Watched}

Max(a, b) == IF a >= b THEN a ELSE b
Min(a, b) == IF a <= b THEN a ELSE b

\* Map<string, number>: a function whose domain is the set of keys present.
MapSet(m, k, v) == [i \in (DOMAIN m) \cup {k} |-> IF i = k THEN v ELSE m[i]]
EmptyMap == [i \in {} |-> 0]

\* ------------------------------------------------------------ query strings
\* A raw query parameter: absent, a decimal number, or a non-numeric text.
RawAbsent == [tag |-> "absent", n |-> 0]
RawNum(k) == [tag |-> "num", n |-> k]
RawText == [tag |-> "text", n |-> 0]

NoQuery == [page |-> RawAbsent, limit |-> RawAbsent]

\* The query strings the model's clients send.
Queries ==
  { NoQuery,
    [page |-> RawAbsent, limit |-> RawNum(1)],
    [page |-> RawNum(0), limit |-> RawAbsent] }

\* z.coerce.number(): Number(value); NaN for a non-numeric text.
Coerce(raw) == [nan |-> raw.tag = "text", val |-> raw.n]

\* page: z.coerce.number().min(1).default(1)
ParsePage(raw) ==
  IF raw.tag = "absent" THEN [ok |-> TRUE, val |-> DefaultPage]
  ELSE LET c == Coerce(raw) IN [ok |-> ~c.nan /\ c.val >= 1, val |-> c.val]

\* As ParseLimit, without .positive().
ParseLimitAny(raw) ==
  IF raw.tag = "absent" THEN [ok |-> TRUE, val |-> DefaultLimit]
  ELSE LET c == Coerce(raw) IN [ok |-> ~c.nan, val |-> c.val]

\* limit: z.coerce.number().positive().default(10)
ParseLimit(raw) ==
  IF raw.tag = "absent" THEN [ok |-> TRUE, val |-> DefaultLimit]
  ELSE LET c == Coerce(raw) IN [ok |-> ~c.nan /\ c.val > 0, val |-> c.val]

pagination_schema(q) ==
  LET p == ParsePage(q.page)
      l == ParseLimit(q.limit)
  IN [ok |-> p.ok /\ l.ok, page |-> p.val, limit |-> l.val]

\* As paginate, with pages counted from 0 (start = page * limit).
paginateFromZero(items, page, limit) ==
  LET start == page * limit
      end == start + limit
      lo == start + 1
      hi == Min(end, Len(items))
  IN IF lo > hi THEN << >> ELSE SubSeq(items, lo, hi)

\* items.slice(start, end): clamped to the sequence, empty when start is past it.
paginate(items, page, limit) ==
  LET start == (page - 1) * limit
      end == start + limit
      lo == start + 1
      hi == Min(end, Len(items))
  IN IF lo > hi THEN << >> ELSE SubSeq(items, lo, hi)

\* ------------------------------------------------------------ upstream feed
\* The feed of a show after v episodes were published: new episodes are put
\* at the front (episode ids are numbers: 1..BaseEpisodes are the old ones).
Items(v) ==
  [i \in 1..(BaseEpisodes + v) |->
      IF i <= v THEN BaseEpisodes + (v - i + 1) ELSE i - v]

\* What rss_to_json.parse does in one call of acast.get.
FetchOutcomes ==
  { [kind |-> "ok", status |-> 0],
    [kind |-> "axios", status |-> StatusNotFound],   \* e.response.status
    [kind |-> "axios", status |-> 0],                \* no e.response
    [kind |-> "other", status |-> 0] }               \* any other exception

\* Acast.get: {error: null, feed} or {error: {message, status}, feed: null}.
Acast_get(outcome, v) ==
  IF outcome.kind = "ok"
  THEN [error |-> FALSE, status |-> 0, items |-> Items(v)]
  ELSE IF outcome.kind = "axios"
  THEN [error |-> TRUE,
        status |-> IF outcome.status = 0 THEN StatusServerError ELSE outcome.status,
        items |-> << >>]
  ELSE [error |-> TRUE, status |-> StatusServerError, items |-> << >>]

\* ----------------------------------------------------------- response cache
\* cache_timestamps.get(id) || 0
CurrentTimestamp(ts, id) == IF id \in DOMAIN ts THEN ts[id] ELSE 0

\* As cacheName, with the timestamp never read (always the default 0).
cacheNameDefault(ts, id) == [id |-> id, t |-> 0]

\* The cache name `${id}-t${timestamp}` of the GET /:id middleware.
cacheName(ts, id) == [id |-> id, t |-> CurrentTimestamp(ts, id)]

\* The cache name of caches.open(id): the bare id, without a -t suffix.
BareName(id) == [id |-> id, t |-> -1]

\* c.req.url of a request for /:id with a query string.
RequestUrl(id, q) == [id |-> id, q |-> q]

\* As CacheKey, with the query string dropped from the URL (one entry per name).
CacheKeyNoQuery(name, id, q) == [name |-> name, url |-> RequestUrl(id, NoQuery)]

\* hono's cache middleware keys the entry by c.req.url inside the named cache.
CacheKey(name, id, q) == [name |-> name, url |-> RequestUrl(id, q)]

\* As CacheMatch, with a lookup that never finds the entry.
CacheMatchNever(c, key) == FALSE

\* cache.match(key): is a response stored under the key?
CacheMatch(c, key) == key \in DOMAIN c

\* cache.put(key, res): an entry already under the key is overwritten.
CachePut(c, key, res) == MapSet(c, key, res)

\* Response.ok
ResOk(status) == status >= 200 /\ status <= 299

\* As CacheStore, with a middleware that never stores the response.
CacheStoreNever(c, key, res) == c

\* The middleware after next(): `if (!c.res.ok) return`, else cache.put.
CacheStore(c, key, res) == IF ResOk(res.status) THEN CachePut(c, key, res) ELSE c

\* As Invalidate, with one timestamp shared by all the shows.
InvalidateAll(ts, id, t) == [i \in (DOMAIN ts) \cup {id} |-> t]

\* cache_timestamps.set(id, Date.now())
Invalidate(ts, id, t) == MapSet(ts, id, t)

\* As ListResponse, with total_items counting the items of the page.
ListResponsePageCount(r, page, limit) ==
  IF r.error
  THEN [status |-> StatusOk, body |-> [kind |-> "error", status |-> r.status]]
  ELSE [status |-> StatusOk,
        body |-> [kind |-> "feed",
                  items |-> paginate(r.items, page, limit),
                  page |-> page,
                  limit |-> limit,
                  total_items |-> Len(paginate(r.items, page, limit))]]

\* The handler of GET /:id once acast.get has returned `r`.
ListResponse(r, page, limit) ==
  IF r.error
  THEN [status |-> StatusOk, body |-> [kind |-> "error", status |-> r.status]]
  ELSE [status |-> StatusOk,
        body |-> [kind |-> "feed",
                  items |-> paginate(r.items, page, limit),
                  page |-> page,
                  limit |-> limit,
                  total_items |-> Len(r.items)]]

\* The handler of POST /:id once acast.get has returned `r`.
RefreshResponse(r) ==
  IF r.error
  THEN [status |-> StatusOk, body |-> [kind |-> "error", status |-> r.status]]
  ELSE [status |-> StatusOk, body |-> [kind |-> "refreshed", cache_cleared |-> TRUE]]

\* ---------------------------------------------------------- webhook payload
\* audioUrl as the sequence of its "/"-separated segments.
TestUrl(id) == <<"https:", "", "assets.pippa.io", "shows", id, "f.m4a">>

\* The request bodies the model's webhook clients send.
Bodies ==
  { [json |-> FALSE, tag |-> "none", segs |-> << >>],
    [json |-> TRUE, tag |-> "missing", segs |-> << >>],
    [json |-> TRUE, tag |-> "number", segs |-> << >>],
    [json |-> TRUE, tag |-> "string", segs |-> <<"x", "f.m4a">>] }
  \cup { [json |-> TRUE, tag |-> "string", segs |-> TestUrl(r)] : r \in Resources }

\* s.split("/shows/"): the index of the first segment of the last piece.  A
\* match is a segment "shows" with a "/" on both sides, and matches do not
\* overlap (the "/" that ends one match cannot start the next).
RECURSIVE LastPieceStart(_, _, _)
LastPieceStart(segs, i, start) ==
  IF i >= Len(segs) THEN start
  ELSE IF segs[i] = "shows" /\ i >= start + 1
       THEN LastPieceStart(segs, i + 2, i + 1)
       ELSE LastPieceStart(segs, i + 1, start)

\* body.audioUrl.split("/shows/").pop().split("/")[0]
show_id(segs) == segs[LastPieceStart(segs, 2, 1)]

\* Does `await c.req.json()` or the show_id expression throw?
WebhookThrows(body) == ~body.json \/ body.tag # "string"

\* Does audioUrl hold a "/shows/<id>/" segment with a non-empty id?
HasShowSegment(segs) ==
  \E i \in 2..(Len(segs) - 2) : segs[i] = "shows" /\ segs[i + 1] # ""

\* A payload that names no show: not JSON, audioUrl missing or not a string,
\* or an audioUrl without a "/shows/<id>/" segment.
Malformed(body) == ~body.json \/ body.tag # "string" \/ ~HasShowSegment(body.segs)


\* -------------------------------------------------------------------- state
VARIABLES
  now,               \* Date.now()
  cache_timestamps,  \* Map<string, number> of src/main.ts
  caches,            \* the Cache storage: cache key -> stored response
  feed,              \* upstream: episodes published per show
  req,               \* the requests suspended at an await
  last,              \* the response sent most recently, with what its request saw
  served,            \* history: the number of requests received
  key_hi,            \* history: the highest timestamp a GET put in a cache name of Watched
  stale_hi,          \* history: key_hi as it was before the completed invalidations
  inv_ver,           \* history: the feed of Watched as of its latest completed invalidations
  requested,         \* history: query strings of Watched requested since its last invalidation
  last_bump,         \* history: the latest cache_timestamps.set
  call               \* the call of a single function under test, with its result

vars == <<now, cache_timestamps, caches, feed, req, last, served,
          key_hi, stale_hi, inv_ver, requested, last_bump, call>>

Slots == 1..MaxReq
Idle == [op |-> "idle"]
NoResponse == [op |-> "none"]
NoBump == [id |-> "", old |-> 0, new |-> 0, done |-> FALSE]
InvalidationOps == {"webhook", "post", "delete"}
NotSeen == [floor |-> [o \in InvalidationOps |-> 0], fresh |-> FALSE, t |-> 0]
NoCall == [fn |-> "none"]

Init ==
  /\ now = 1
  /\ cache_timestamps = EmptyMap
  /\ caches = EmptyMap
  /\ feed = [r \in Resources |-> 0]
  /\ req = [s \in Slots |-> Idle]
  /\ last = NoResponse
  /\ served = 0
  /\ key_hi = -1
  /\ stale_hi = -1
  /\ inv_ver = [o \in InvalidationOps |-> 0]
  /\ requested = {}
  /\ last_bump = NoBump
  /\ call = NoCall

\* A request arrives.
Receive == served < MaxRequests /\ served' = served + 1

\* The slot a new suspended request takes.
IsFree(s) == req[s].op = "idle" /\ \A s2 \in Slots : s2 < s => req[s2].op # "idle"

\* History: the keys under which a response of show `id` is stored.
CachedKeys(id) == {k \in DOMAIN caches : k.url.id = id}

\* What every cache_timestamps.set(id, Date.now()) leaves in the history.
BumpHistory(id) ==
  /\ last_bump' = [id |-> id, old |-> CurrentTimestamp(cache_timestamps, id),
                   new |-> now, done |-> TRUE]
  /\ requested' = IF id = Watched THEN {} ELSE requested

\* What a completed invalidation of `id` leaves in the history: the cache
\* names computed before it (pre) and the feed as it was at its bump (ver),
\* kept per kind of invalidation.
DoneHistory(id, op, pre, ver) ==
  /\ stale_hi' = IF id = Watched THEN Max(stale_hi, pre) ELSE stale_hi
  /\ inv_ver' = IF id = Watched THEN [inv_ver EXCEPT ![op] = Max(@, ver)] ELSE inv_ver

\* ------------------------------------------------------------- environment
\* The clock advances.
Tick ==
  /\ UNCHANGED call
  /\ now < MaxClock
  /\ now' = now + 1
  /\ UNCHANGED <<cache_timestamps, caches, feed, req, last, served,
                 key_hi, stale_hi, inv_ver, requested, last_bump>>

\* An episode is published upstream (MockAcast.add_episode: unshift).
AddEpisode(r) ==
  /\ UNCHANGED call
  /\ feed[r] < MaxAdd
  /\ feed' = [feed EXCEPT ![r] = @ + 1]
  /\ UNCHANGED <<now, cache_timestamps, caches, req, last, served,
                 key_hi, stale_hi, inv_ver, requested, last_bump>>

\* ----------------------------------------------------------- POST "" (webhook)
Webhook(body) ==
  /\ UNCHANGED call
  /\ Receive
  /\ IF WebhookThrows(body)
     THEN /\ last' = [op |-> "webhook", id |-> "", status |-> StatusServerError,
                      body |-> [kind |-> "exception"],
                      malformed |-> Malformed(body), wrote |-> FALSE]
          /\ UNCHANGED <<now, cache_timestamps, caches, feed, req,
                         key_hi, stale_hi, inv_ver, requested, last_bump>>
     ELSE LET id == show_id(body.segs) IN
          /\ cache_timestamps' = Invalidate(cache_timestamps, id, now)
          /\ last' = [op |-> "webhook", id |-> id, status |-> StatusNoContent,
                      body |-> [kind |-> "none"],
                      malformed |-> Malformed(body), wrote |-> TRUE]
          /\ BumpHistory(id)
          /\ DoneHistory(id, "webhook", key_hi, feed[Watched])
          /\ UNCHANGED <<now, caches, feed, req, key_hi>>

\* ------------------------------------------------------------- POST "/:id"
\* Up to `await acast.get(id)`.
PostStart(s, id) ==
  /\ UNCHANGED call
  /\ Receive
  /\ IsFree(s)
  /\ cache_timestamps' = Invalidate(cache_timestamps, id, now)
  /\ req' = [req EXCEPT ![s] = [op |-> "post", id |-> id,
                                pre |-> key_hi, ver |-> feed[Watched],
                                cached |-> CachedKeys(id)]]
  /\ BumpHistory(id)
  /\ UNCHANGED <<now, caches, feed, last, key_hi, stale_hi, inv_ver>>

\* acast.get returns and the response is sent.
PostDone(s, outcome) ==
  /\ UNCHANGED call
  /\ req[s].op = "post"
  /\ LET id == req[s].id
         res == RefreshResponse(Acast_get(outcome, feed[id]))
     IN /\ last' = [op |-> "post", id |-> id, status |-> res.status, body |-> res.body,
                    cached |-> req[s].cached]
        /\ DoneHistory(id, "post", req[s].pre, req[s].ver)
  /\ req' = [req EXCEPT ![s] = Idle]
  /\ UNCHANGED <<now, cache_timestamps, caches, feed, served,
                 key_hi, requested, last_bump>>

\* ----------------------------------------------------------- DELETE "/:id"
\* As Delete, with a purge that also removes the stored responses of the show.
DeleteAndPurge(id) ==
  /\ UNCHANGED call
  /\ Receive
  /\ LET was_cached == CacheMatch(caches, CacheKey(BareName(id), id, NoQuery))
     IN last' = [op |-> "delete", id |-> id, status |-> StatusOk,
                 body |-> [kind |-> "purge", was_cached |-> was_cached,
                           still_cached |-> FALSE],
                 reachable |-> CacheMatch(caches,
                     CacheKey(cacheName(cache_timestamps, id), id, NoQuery))]
  /\ caches' = [k \in {j \in DOMAIN caches : j.url.id # id} |-> caches[k]]
  /\ cache_timestamps' = Invalidate(cache_timestamps, id, now)
  /\ BumpHistory(id)
  /\ DoneHistory(id, "delete", key_hi, feed[Watched])
  /\ UNCHANGED <<now, feed, req, key_hi>>

Delete(id) ==
  /\ UNCHANGED call
  /\ Receive
  /\ LET was_cached == CacheMatch(caches, CacheKey(BareName(id), id, NoQuery))
     IN last' = [op |-> "delete", id |-> id, status |-> StatusOk,
                 body |-> [kind |-> "purge", was_cached |-> was_cached,
                           still_cached |-> FALSE],
                 reachable |-> CacheMatch(caches,
                     CacheKey(cacheName(cache_timestamps, id), id, NoQuery))]
  /\ cache_timestamps' = Invalidate(cache_timestamps, id, now)
  /\ BumpHistory(id)
  /\ DoneHistory(id, "delete", key_hi, feed[Watched])
  /\ UNCHANGED <<now, caches, feed, req, key_hi>>

\* -------------------------------------------------------- GET "/debug/:id"
\* As Debug, with a lookup of the timestamp that inserts the show's entry.
DebugInserting(id) ==
  /\ UNCHANGED call
  /\ Receive
  /\ LET has == CacheMatch(caches, CacheKey(BareName(id), id, NoQuery))
     IN last' = [op |-> "debug", id |-> id, status |-> StatusOk,
                 body |-> [kind |-> "debug", has_cached_data |-> has],
                 reachable |-> CacheMatch(caches,
                     CacheKey(cacheName(cache_timestamps, id), id, NoQuery))]
  /\ cache_timestamps' = MapSet(cache_timestamps, id, CurrentTimestamp(cache_timestamps, id))
  /\ UNCHANGED <<now, caches, feed, req,
                 key_hi, stale_hi, inv_ver, requested, last_bump>>

Debug(id) ==
  /\ UNCHANGED call
  /\ Receive
  /\ LET has == CacheMatch(caches, CacheKey(BareName(id), id, NoQuery))
     IN last' = [op |-> "debug", id |-> id, status |-> StatusOk,
                 body |-> [kind |-> "debug", has_cached_data |-> has],
                 reachable |-> CacheMatch(caches,
                     CacheKey(cacheName(cache_timestamps, id), id, NoQuery))]
  /\ UNCHANGED <<now, cache_timestamps, caches, feed, req,
                 key_hi, stale_hi, inv_ver, requested, last_bump>>

\* --------------------------------------------------------------- GET "/:id"
\* The middleware computes the cache name, opens the cache and looks the
\* request up; on a miss the handler parses the query and calls acast.get.
GetStart(s, id, q) ==
  LET name == cacheName(cache_timestamps, id)
      key == CacheKey(name, id, q)
      seen == IF id = Watched
              THEN [floor |-> inv_ver, fresh |-> q \notin requested, t |-> name.t]
              ELSE NotSeen
      parsed == pagination_schema(q)
  IN /\ UNCHANGED call
     /\ Receive
     /\ IsFree(s)
     /\ key_hi' = IF id = Watched THEN Max(key_hi, name.t) ELSE key_hi
     /\ requested' = IF id = Watched THEN requested \cup {q} ELSE requested
     /\ IF CacheMatch(caches, key)
        THEN /\ last' = [op |-> "get", id |-> id, q |-> q, hit |-> TRUE,
                         status |-> caches[key].status, body |-> caches[key].body,
                         seen |-> seen]
             /\ req' = req
        ELSE IF ~parsed.ok
        THEN /\ last' = [op |-> "get", id |-> id, q |-> q, hit |-> FALSE,
                         status |-> StatusBadRequest, body |-> [kind |-> "zod"],
                         seen |-> seen]
             /\ req' = req
        ELSE /\ req' = [req EXCEPT ![s] =
                          [op |-> "get", id |-> id, q |-> q, key |-> key,
                           page |-> parsed.page, limit |-> parsed.limit,
                           seen |-> seen]]
             /\ last' = last
     /\ UNCHANGED <<now, cache_timestamps, caches, feed, stale_hi, inv_ver, last_bump>>

\* acast.get reads the feed (or fails), the handler builds the response, the
\* middleware stores it (wait: true) and the response is sent.
GetDone(s, outcome) ==
  /\ UNCHANGED call
  /\ req[s].op = "get"
  /\ LET r == req[s]
         res == ListResponse(Acast_get(outcome, feed[r.id]), r.page, r.limit)
     IN /\ caches' = CacheStore(caches, r.key, res)
        /\ last' = [op |-> "get", id |-> r.id, q |-> r.q, hit |-> FALSE,
                    status |-> res.status, body |-> res.body, seen |-> r.seen]
  /\ req' = [req EXCEPT ![s] = Idle]
  /\ UNCHANGED <<now, cache_timestamps, feed, served,
                 key_hi, stale_hi, inv_ver, requested, last_bump>>

\* ------------------------------------------------------------ specification
Next ==
  \/ Tick
  \/ \E r \in ReadShows : AddEpisode(r)
  \/ \E b \in Bodies : Webhook(b)
  \/ \E s \in Slots, id \in Resources : PostStart(s, id)
  \/ \E s \in Slots, o \in FetchOutcomes : PostDone(s, o)
  \/ \E id \in Resources : Delete(id)
  \/ \E id \in ReadShows : Debug(id)
  \/ \E s \in Slots, id \in ReadShows, q \in Queries : GetStart(s, id, q)
  \/ \E s \in Slots, o \in FetchOutcomes : GetDone(s, o)

Spec == Init /\ [][Next]_vars

\* ------------------------------------------- specification: query strings
\* The server under reads only, with every shape of the page and limit
\* parameters: absent, below the minimum, valid, not a number.
AllQueries ==
  Queries \cup
  { [page |-> RawText, limit |-> RawAbsent],
    [page |-> RawAbsent, limit |-> RawNum(0)],
    [page |-> RawAbsent, limit |-> RawText],
    [page |-> RawNum(2), limit |-> RawNum(1)] }

NextQueries ==
  \/ Tick
  \/ \E r \in ReadShows : AddEpisode(r)
  \/ \E id \in ReadShows : Delete(id)
  \/ \E s \in Slots, id \in ReadShows, q \in AllQueries : GetStart(s, id, q)
  \/ \E s \in Slots, o \in FetchOutcomes : GetDone(s, o)

SpecQueries == Init /\ [][NextQueries]_vars

\* ------------------------------------------------- specification: paginate
\* paginate called on its own, on every item list of at most MaxItems items
\* over ItemIds, every page in 1..MaxPage and every limit in 1..MaxLimit.
MaxItems == 3
MaxPage == 3
MaxLimit == 4
ItemIds == {"a", "b"}

ItemLists == UNION {[1..n -> ItemIds] : n \in 0..MaxItems}

InitPaginate ==
  /\ now = 1
  /\ cache_timestamps = EmptyMap
  /\ caches = EmptyMap
  /\ feed = [r \in Resources |-> 0]
  /\ req = [s \in Slots |-> Idle]
  /\ last = NoResponse
  /\ served = 0
  /\ key_hi = -1
  /\ stale_hi = -1
  /\ inv_ver = [o \in InvalidationOps |-> 0]
  /\ requested = {}
  /\ last_bump = NoBump
  /\ call \in {[fn |-> "paginate", items |-> i, page |-> p, limit |-> l,
                 done |-> FALSE, out |-> << >>] :
                  i \in ItemLists, p \in 1..MaxPage, l \in 1..MaxLimit}

CallPaginate ==
  /\ call.fn = "paginate"
  /\ ~call.done
  /\ call' = [call EXCEPT !.done = TRUE,
                          !.out = paginate(call.items, call.page, call.limit)]
  /\ UNCHANGED <<now, cache_timestamps, caches, feed, req, last, served,
                 key_hi, stale_hi, inv_ver, requested, last_bump>>

SpecPaginate == InitPaginate /\ [][CallPaginate]_vars

\* ------------------------------------- specification: GET "/:id/:id_or_slug"
\* The single-episode route called on its own, on feeds of up to
\* BaseEpisodes + MaxPublished episodes.  An episode is known by its number:
\* its id and its slug are distinct strings derived from it.
MaxPublished == 10

ItemId(item) == [tag |-> "id", n |-> item]
ItemSlug(item) == [tag |-> "slug", n |-> item]

\* The values of the :id_or_slug parameter: the id or the slug of an episode
\* that may exist, or a string that is neither (episode number 0).
Lookups ==
  {ItemId(n) : n \in 0..(BaseEpisodes + MaxPublished)}
    \cup {ItemSlug(n) : n \in 1..(BaseEpisodes + MaxPublished)}

\* item.id === id_or_slug || item.slug === id_or_slug
ItemMatches(item, k) == ItemId(item) = k \/ ItemSlug(item) = k

\* feed.items.find(...): the position of the first match, 0 for undefined.
FindItem(items, k) ==
  IF \E i \in 1..Len(items) : ItemMatches(items[i], k)
  THEN CHOOSE i \in 1..Len(items) :
         /\ ItemMatches(items[i], k)
         /\ \A j \in 1..(i - 1) : ~ItemMatches(items[j], k)
  ELSE 0

\* The handler once `app.fetch(new Request(url))` has returned `result`, the
\* response of GET /:id without a query string.  A body without items makes
\* feed.items.find throw; the catch answers c.json(error), status 200.
ItemResponse(result, k) ==
  IF result.body.kind # "feed"
  THEN [status |-> StatusOk, body |-> [kind |-> "exception"]]
  ELSE LET i == FindItem(result.body.items, k)
       IN IF i = 0
          THEN [status |-> StatusNotFound, body |-> [kind |-> "not_found", k |-> k]]
          ELSE [status |-> StatusOk,
                body |-> [kind |-> "item", item |-> result.body.items[i]]]

InitItem ==
  /\ now = 1
  /\ cache_timestamps = EmptyMap
  /\ caches = EmptyMap
  /\ feed \in {[r \in Resources |-> IF r = Watched THEN v ELSE 0] : v \in 0..MaxPublished}
  /\ req = [s \in Slots |-> Idle]
  /\ last = NoResponse
  /\ served = 0
  /\ key_hi = -1
  /\ stale_hi = -1
  /\ inv_ver = [o \in InvalidationOps |-> 0]
  /\ requested = {}
  /\ last_bump = NoBump
  /\ call \in {[fn |-> "item", id |-> Watched, k |-> k, done |-> FALSE] : k \in Lookups}

\* GET /:id/:id_or_slug, whole: the inner GET /:id (cache lookup, on a miss
\* acast.get, default page and limit, response stored), then the search.
GetItem(outcome) ==
  /\ call.fn = "item"
  /\ ~call.done
  /\ served < MaxRequests
  /\ LET id == call.id
         key == CacheKey(cacheName(cache_timestamps, id), id, NoQuery)
         parsed == pagination_schema(NoQuery)
         result == IF CacheMatch(caches, key)
                   THEN caches[key]
                   ELSE ListResponse(Acast_get(outcome, feed[id]),
                                     parsed.page, parsed.limit)
         res == ItemResponse(result, call.k)
     IN /\ caches' = IF CacheMatch(caches, key) THEN caches
                     ELSE CacheStore(caches, key, result)
        /\ last' = [op |-> "item", id |-> id, k |-> call.k,
                    status |-> res.status, body |-> res.body,
                    fetched |-> ~CacheMatch(caches, key) /\ outcome.kind = "ok"]
        /\ call' = [call EXCEPT !.done = TRUE]
        /\ key_hi' = IF id = Watched
                     THEN Max(key_hi, CurrentTimestamp(cache_timestamps, id))
                     ELSE key_hi
        /\ requested' = IF id = Watched THEN requested \cup {NoQuery} ELSE requested
  /\ served' = served + 1
  /\ UNCHANGED <<now, cache_timestamps, feed, req, stale_hi, inv_ver, last_bump>>

NextItem == \E o \in FetchOutcomes : GetItem(o)

SpecItem == InitItem /\ [][NextItem]_vars

\* ------------------------------------------ specification: webhook payloads
\* The server under webhooks only, with more shapes of audioUrl: no
\* "/shows/" at all, an empty segment after it, nothing after the id, and
\* "shows" as the last segment.
UrlBodies ==
  Bodies \cup
  { [json |-> TRUE, tag |-> "string", segs |-> u] :
      u \in { <<"https:", "", "assets.pippa.io", "f.m4a">>,
              <<"https:", "", "assets.pippa.io", "shows", "", "f.m4a">>,
              <<"https:", "", "assets.pippa.io", "shows", "y">>,
              <<"https:", "", "assets.pippa.io", "shows">> } }

NextWebhook ==
  \/ Tick
  \/ \E b \in UrlBodies : Webhook(b)

SpecWebhook == Init /\ [][NextWebhook]_vars

\* ------------------------------------------------ specification: all routes
\* The three read routes of show x (one GET /x/k among them) next to the
\* three invalidations of x.
ReadLookups == {ItemId(1)}

InitReads ==
  /\ now = 1
  /\ cache_timestamps = EmptyMap
  /\ caches = EmptyMap
  /\ feed = [r \in Resources |-> 0]
  /\ req = [s \in Slots |-> Idle]
  /\ last = NoResponse
  /\ served = 0
  /\ key_hi = -1
  /\ stale_hi = -1
  /\ inv_ver = [o \in InvalidationOps |-> 0]
  /\ requested = {}
  /\ last_bump = NoBump
  /\ call \in {[fn |-> "item", id |-> Watched, k |-> k, done |-> FALSE] : k \in ReadLookups}

NextReads ==
  \/ Tick
  \/ \E r \in ReadShows : AddEpisode(r)
  \/ Webhook([json |-> TRUE, tag |-> "string", segs |-> TestUrl(Watched)])
  \/ \E s \in Slots : PostStart(s, Watched)
  \/ \E s \in Slots, o \in FetchOutcomes : PostDone(s, o)
  \/ Delete(Watched)
  \/ \E id \in ReadShows : Debug(id)
  \/ \E s \in Slots, id \in ReadShows, q \in Queries : GetStart(s, id, q)
  \/ \E s \in Slots, o \in FetchOutcomes : GetDone(s, o)
  \/ \E o \in FetchOutcomes : GetItem(o)

SpecReads == InitReads /\ [][NextReads]_vars

\* =================================================================== claims
\* The feed snapshot a list response was computed from.
SnapshotOf(body) == body.total_items - BaseEpisodes

\* The cache key a GET /Watched?q computes in the current state.
KeyNow(q) == CacheKey(cacheName(cache_timestamps, Watched), Watched, q)

\* This step is the arrival of an invalidation of show y (its timestamp is set).
InvalidationStep(y) ==
  /\ served' = served + 1
  /\ \/ /\ last'.op \in {"webhook", "delete"}
        /\ last'.id = y
        /\ ResOk(last'.status)
        /\ req' = req
     \/ \E s \in Slots : req[s].op = "idle" /\ req'[s].op = "post" /\ req'[s].id = y

\* Is a GET that missed on key k suspended at acast.get?
MissInFlight(k) == \E s \in Slots : req[s].op = "get" /\ req[s].key = k

\* ---- C1
\* C1 (as claimed): after an invalidation of a show has completed, the cache
\* name a GET computes for it differs from every cache name computed for it
\* before that invalidation.  Timestamps never decrease, so the name is one of
\* the earlier ones exactly when it carries the highest earlier timestamp.
C1_KeyChangesOnInvalidation ==
  cacheName(cache_timestamps, Watched) # [id |-> Watched, t |-> stale_hi]

\* ---- C2
\* C2 (as claimed): a show never invalidated reads the default 0, and every
\* cache_timestamps.set leaves the show's timestamp strictly greater than it was.
C2_MarkerStrictlyIncreases ==
  /\ \A r \in Resources :
       r \notin DOMAIN cache_timestamps => CurrentTimestamp(cache_timestamps, r) = 0
  /\ last_bump.done => last_bump.new > last_bump.old

\* ---- C3
\* C3 (as claimed): a GET /r started after a POST /r has completed returns
\* items of the feed as it was at that POST or later, whatever the query.
C3_GetAfterPostIsFresh ==
  (last.op = "get" /\ last.id = Watched /\ last.body.kind = "feed")
    => SnapshotOf(last.body) >= last.seen.floor["post"]

\* ---- C4
\* C4 (as claimed): a webhook naming show r answers 204 without a body once
\* r's timestamp is set, and a GET /r started after the 204 returns items of
\* the feed as it was at the webhook or later.
C4_WebhookInvalidates ==
  /\ (last.op = "webhook" /\ last.status = StatusNoContent)
       => /\ last.body.kind = "none"
          /\ last.wrote
          /\ CurrentTimestamp(cache_timestamps, last.id) > 0
  /\ (last.op = "get" /\ last.id = Watched /\ last.body.kind = "feed")
       => SnapshotOf(last.body) >= last.seen.floor["webhook"]

\* ---- C5
\* C5: an invalidation of a show other than x (webhook, POST /y, DELETE /y)
\* leaves x's timestamp and every stored entry of x unchanged, and a GET /x
\* that was a hit before it is a hit on the same stored response after it.
C5_OtherShowUntouched ==
  [][\A y \in (Resources \cup DOMAIN cache_timestamps') \ {Watched} :
       InvalidationStep(y) =>
         /\ CurrentTimestamp(cache_timestamps', Watched)
              = CurrentTimestamp(cache_timestamps, Watched)
         /\ \A k \in DOMAIN caches :
              k.url.id = Watched => k \in DOMAIN caches' /\ caches'[k] = caches[k]
         /\ \A q \in Queries :
              CacheMatch(caches, KeyNow(q)) =>
                /\ CacheMatch(caches', KeyNow(q)')
                /\ caches'[KeyNow(q)'] = caches[KeyNow(q)]]_vars

\* C5 witness: show y was invalidated last and a GET /x is then a cache hit.
C5_Witness ==
  /\ last_bump.done /\ last_bump.id = "y"
  /\ last.op = "get" /\ last.id = Watched /\ last.hit
  /\ CurrentTimestamp(cache_timestamps, "y") > 0

\* ---- C6
\* C6 (as claimed): a webhook whose payload names no show is answered 400 and
\* writes no timestamp.
C6_MalformedWebhookIs400 ==
  (last.op = "webhook" /\ last.malformed)
    => last.status = StatusBadRequest /\ ~last.wrote

C8_OneSlotPerGeneration ==
  \A k1 \in DOMAIN caches, k2 \in DOMAIN caches : k1.name = k2.name => k1 = k2

\* C8 (amended): queries of one show and timestamp share the cache name but
\* not the entry: every entry is stored under the name and URL of one query,
\* and holds the page of exactly that query's page and limit.
C8_EntryPerQuery ==
  \A k \in DOMAIN caches :
    /\ k.name.id = k.url.id
    /\ k.url.q \in Queries
    /\ pagination_schema(k.url.q).ok
    /\ caches[k].body.kind = "feed" =>
         LET b == caches[k].body
             p == pagination_schema(k.url.q)
         IN /\ b.page = p.page
            /\ b.limit = p.limit
            /\ b.items = paginate(Items(SnapshotOf(b)), p.page, p.limit)

\* C8 witness: two queries of one show are stored under one cache name.
C8_Witness ==
  \E k1 \in DOMAIN caches, k2 \in DOMAIN caches :
    /\ k1.name = k2.name /\ k1.url # k2.url
    /\ caches[k1].body.kind = "feed" /\ caches[k2].body.kind = "feed"
    /\ caches[k1].body.items # caches[k2].body.items

\* ---- C9
\* C9 (as claimed): a GET /r?q whose query was not requested since r's last
\* invalidation is a cache miss.
C9_UnrequestedQueryMisses ==
  (last.op = "get" /\ last.id = Watched /\ last.seen.fresh) => ~last.hit

\* ---- C10
\* C10 (as claimed): the response of a GET whose acast.get failed is never
\* stored in the response cache.
C10_NoNegativeCaching ==
  \A k \in DOMAIN caches : caches[k].body.kind # "error"

\* ---- C11
\* C11 (as claimed): every list stored under the cache name a GET /r computes
\* now was fetched from upstream no earlier than the invalidations of r that
\* have completed, so a hit under the current name is never older than them.
C11_CurrentEntriesPostdateInvalidation ==
  \A q \in Queries :
    (KeyNow(q) \in DOMAIN caches /\ caches[KeyNow(q)].body.kind = "feed")
      => \A o \in InvalidationOps : SnapshotOf(caches[KeyNow(q)].body) >= inv_ver[o]

\* ---- C12
\* The query is invalid in the words of the claim: page below 1 or not a
\* number, or limit not a positive number.
InvalidQuery(q) ==
  \/ q.page.tag = "text"
  \/ q.page.tag = "num" /\ q.page.n < 1
  \/ q.limit.tag = "text"
  \/ q.limit.tag = "num" /\ q.limit.n <= 0

\* This step is the arrival of a GET /x?q: it is answered at once, or its
\* handler is suspended at acast.get.
GetArrival(q) ==
  /\ served' = served + 1
  /\ \/ req' = req /\ last'.op = "get" /\ last'.id = Watched /\ last'.q = q
     \/ \E s \in Slots : req[s].op = "idle" /\ req'[s].op = "get" /\ req'[s].q = q

\* C12: a GET /x with an invalid page or limit is answered 400 at once: no
\* timestamp changes, acast.get is not called, nothing is stored; and a GET
\* that calls acast.get has page 1 for a missing page and limit 10 for a
\* missing limit, which its response carries.
C12_InvalidQueryRejected ==
  [][/\ \A q \in AllQueries :
          (GetArrival(q) /\ InvalidQuery(q)) =>
            /\ req' = req
            /\ last'.status = 400 /\ ~last'.hit
            /\ cache_timestamps' = cache_timestamps
            /\ caches' = caches
     /\ \A s \in Slots :
          (req[s].op = "idle" /\ req'[s].op = "get") =>
            /\ ~InvalidQuery(req'[s].q)
            /\ req'[s].q.page = RawAbsent => req'[s].page = 1
            /\ req'[s].q.limit = RawAbsent => req'[s].limit = 10
     /\ \A s \in Slots :
          (req[s].op = "get" /\ req'[s].op = "idle" /\ last'.body.kind = "feed") =>
            /\ last'.body.page = req[s].page
            /\ last'.body.limit = req[s].limit]_vars

\* C12 witness: an invalid query was answered 400 while x had a timestamp and
\* a stored response.
C12_Witness ==
  /\ last.op = "get" /\ InvalidQuery(last.q) /\ last.status = 400
  /\ CurrentTimestamp(cache_timestamps, Watched) > 0
  /\ caches # EmptyMap

\* ---- C13
\* C13: for page >= 1 and limit > 0, paginate(items, page, limit) is the run
\* of items at the 0-based positions (page-1)*limit .. min(page*limit, len)-1
\* in their order: at most limit items, and none when (page-1)*limit >= len.
C13_PaginateIsSlice ==
  (call.fn = "paginate" /\ call.done) =>
    LET start == (call.page - 1) * call.limit
        stop == Min(call.page * call.limit, Len(call.items))
        n == Max(0, stop - start)
    IN /\ call.out = [i \in 1..n |-> call.items[start + i]]
       /\ Len(call.out) <= call.limit
       /\ start >= Len(call.items) => call.out = << >>

\* C13 witness: a last page cut short by the end of the list.
C13_Witness ==
  /\ call.fn = "paginate" /\ call.done
  /\ call.page > 1
  /\ call.out # << >>
  /\ Len(call.out) < call.limit

\* ---- C14
\* The response sent last answered a GET /x?q whose cache name is x's
\* current one, and no invalidation of x has arrived since that response.
LastAnswered(q) ==
  /\ last.op = "get" /\ last.id = Watched /\ last.q = q
  /\ last.seen.t = CurrentTimestamp(cache_timestamps, Watched)
  /\ \A s \in Slots : req[s].op # "post"

\* This step answers a GET /x?q under x's current cache name: at its arrival,
\* or when its acast.get returns.
GetAnswer(q) ==
  /\ last'.op = "get" /\ last'.id = Watched /\ last'.q = q
  /\ \/ served' = served + 1 /\ req' = req
     \/ \E s \in Slots :
          /\ req[s].op = "get" /\ req'[s].op = "idle"
          /\ req[s].seen.t = CurrentTimestamp(cache_timestamps, Watched)

C15_FailedRefreshStillInvalidates ==
  (last.op = "post" /\ last.id = Watched /\ last.body.kind = "error")
    => /\ Watched \in DOMAIN cache_timestamps
       /\ \A q \in Queries : KeyNow(q) \notin last.cached

\* ---- C16
\* C16 (as claimed): every POST /r is answered 200 with cache_cleared: true,
\* also when acast.get fails.
C16_PostAnswersCacheCleared ==
  last.op = "post"
    => /\ last.status = 200
       /\ last.body.kind = "refreshed"
       /\ last.body.cache_cleared

\* ---- C17
\* C17 (as claimed): a GET /x whose acast.get failed is answered with the
\* status of the error (the upstream status, or 500 when there is none), never
\* with a 2xx status.
C17_FetchErrorStatus ==
  (last.op = "get" /\ ~last.hit /\ last.body.kind = "error")
    => /\ last.status = last.body.status
       /\ ~ResOk(last.status)

\* ---- C18
\* C18 (as claimed): every invalidation of x, in whatever interleaving with
\* other requests, gives x's timestamp a new, strictly greater value (k
\* invalidations: k distinct increasing values), so that no response stored
\* before it is under a key a GET /x computes after it.
C18_InvalidationsNotLost ==
  [][InvalidationStep(Watched) =>
       /\ CurrentTimestamp(cache_timestamps', Watched)
            > CurrentTimestamp(cache_timestamps, Watched)
       /\ \A q \in Queries : KeyNow(q)' \notin DOMAIN caches]_vars

\* ---- C19
\* This step belongs to an invalidation request: a webhook or a DELETE /:id
\* (whole), or a POST /:id (up to acast.get, or from there to its response).
InvalidationWork ==
  \/ served' = served + 1 /\ req' = req /\ last'.op \in {"webhook", "delete"}
  \/ \E s \in Slots : req[s].op = "idle" /\ req'[s].op = "post"
  \/ \E s \in Slots : req[s].op = "post" /\ req'[s].op = "idle"

\* C19: no step of a webhook, a POST /:id or a DELETE /:id removes, adds or
\* changes a stored response: the entries of the Cache storage are the same
\* after the step as before it.
C19_InvalidationKeepsEntries ==
  [][InvalidationWork => caches' = caches]_vars

\* C19 witness: x was invalidated and a response of x stored under an earlier
\* cache name is still in the Cache storage.
C19_Witness ==
  /\ last.op \in InvalidationOps /\ last.id = Watched
  /\ \E k \in DOMAIN caches :
       k.url.id = Watched /\ k.name # cacheName(cache_timestamps, Watched)

\* ---- C20
\* C20 (as claimed): of the GETs that missed on one cache key, at most one
\* is suspended at a call of acast.get at any time.
C20_OneFetchPerKey ==
  \A s1 \in Slots, s2 \in Slots :
    (req[s1].op = "get" /\ req[s2].op = "get" /\ req[s1].key = req[s2].key)
      => s1 = s2

\* ---- C21
\* C21: a GET /x whose acast.get succeeded reports as total_items the number
\* of items of the feed as acast.get read it, whatever the page and limit,
\* and the page and limit its query parses to; and a GET /x answered from the
\* cache reports what the stored response reports.
C21_TotalItemsIsFeedLength ==
  [][/\ \A s \in Slots :
          (req[s].op = "get" /\ req'[s].op = "idle" /\ last'.body.kind = "feed") =>
            /\ last'.body.total_items = Len(Items(feed[req[s].id]))
            /\ last'.body.page = pagination_schema(req[s].q).page
            /\ last'.body.limit = pagination_schema(req[s].q).limit
     /\ \A q \in AllQueries :
          (GetArrival(q) /\ req' = req /\ last'.hit) =>
            last'.body = caches[KeyNow(q)].body]_vars

\* C21 witness: a response that holds fewer items than it reports in total.
C21_Witness ==
  /\ last.op = "get" /\ last.body.kind = "feed"
  /\ last.body.total_items = Len(Items(feed[Watched]))
  /\ Len(last.body.items) < last.body.total_items
  /\ last.body.page > 1

\* ---- C22
\* The timestamp an invalidation of x wrote last, or the default.
LatestWritten ==
  IF last_bump.done /\ last_bump.id = Watched
  THEN last_bump.new
  ELSE CurrentTimestamp(cache_timestamps, Watched)

\* C22: a GET /x computes its cache name, at its arrival, from the timestamp
\* the latest cache_timestamps.set for x wrote (so from that of every
\* invalidation completed before it, or a later one), never an earlier value.
C22_KeyFromLatestTimestamp ==
  [][\A q \in Queries :
       GetArrival(q) =>
         /\ req' = req => last'.seen.t = LatestWritten
         /\ \A s \in Slots :
              (req[s].op = "idle" /\ req'[s].op = "get") =>
                /\ req'[s].key.name = [id |-> Watched, t |-> LatestWritten]
                /\ req'[s].seen.t = LatestWritten]_vars

\* C22 witness: a GET /x was answered under the timestamp of the second of
\* two invalidations of x that wrote different timestamps.
C22_Witness ==
  /\ last.op = "get" /\ last.id = Watched
  /\ last_bump.done /\ last_bump.id = Watched
  /\ last_bump.old > 0 /\ last_bump.new > last_bump.old
  /\ last.seen.t = last_bump.new

\* ---- C23
\* C23 (as claimed): a GET /x suspended at acast.get stores its response
\* under the key it computed at its arrival and nowhere else, and once an
\* invalidation of x has arrived that key is not under x's new cache name, so
\* that no later GET /x is served that response.
C23_InFlightGetStoresUnderOldKey ==
  [][/\ \A s \in Slots :
          (req[s].op = "get" /\ req'[s].op = "idle") =>
            \A k \in DOMAIN caches' :
              k # req[s].key => k \in DOMAIN caches /\ caches'[k] = caches[k]
     /\ InvalidationStep(Watched) =>
          \A s \in Slots :
            (req[s].op = "get" /\ req[s].id = Watched) =>
              req[s].key.name # cacheName(cache_timestamps', Watched)]_vars

\* ---- C24
\* C24 (as claimed): when a POST /x whose acast.get succeeded is answered, a
\* response is stored under the key a GET /x computes, so that the next
\* GET /x is answered from the cache.
C24_PostWarmsCache ==
  (last.op = "post" /\ last.id = Watched /\ last.body.kind = "refreshed")
    => KeyNow(NoQuery) \in DOMAIN caches

\* ---- C25
\* C25 (as claimed): GET /x/k answers with the episode of x's feed, at
\* whatever position of the list, whose id or slug is k, and answers 404
\* naming k exactly when the feed has no such episode.
C25_ItemLookup ==
  (last.op = "item" /\ last.fetched) =>
    LET items == Items(feed[last.id])
        found == {i \in 1..Len(items) : ItemMatches(items[i], last.k)}
    IN /\ \A i \in found :
            /\ last.status = 200
            /\ last.body.kind = "item"
            /\ last.body.item = items[i]
       /\ last.status = 404 <=> found = {}
       /\ last.status = 404 => last.body = [kind |-> "not_found", k |-> last.k]

\* ---- C26
\* C26 (as claimed): the show id the webhook derives depends on audioUrl
\* alone: for an audioUrl of the shape .../shows/<id>/<file> with a non-empty
\* <id> it is the segment after "shows", whose timestamp is written; for
\* every other payload the webhook fails (no 204) and writes no timestamp.
C26_ShowIdExtraction ==
  [][\A b \in UrlBodies :
       Webhook(b) =>
         IF Malformed(b)
         THEN /\ cache_timestamps' = cache_timestamps
              /\ last'.status # 204
         ELSE /\ last'.status = 204
              /\ \E i \in 2..(Len(b.segs) - 2) :
                   b.segs[i] = "shows" /\ b.segs[i + 1] = last'.id
              /\ last'.id \in DOMAIN cache_timestamps']_vars

\* ---- C27
\* C27 (as claimed): GET /debug/x reports has_cached_data = true exactly when
\* a response is stored under the key a GET /x without query string computes
\* at that moment.
C27_DebugReportsReachable ==
  last.op = "debug" => (last.body.has_cached_data <=> last.reachable)

\* ---- C28
\* C28 (as claimed): DELETE /x reports was_cached = true exactly when a
\* response was stored under the key of GET /x just before the purge, and
\* after it, as still_cached = false says, none is stored under the key of
\* GET /x.
C28_DeleteReportsReachable ==
  (last.op = "delete" /\ last.id = Watched) =>
    /\ last.body.was_cached <=> last.reachable
    /\ ~last.body.still_cached => KeyNow(NoQuery) \notin DOMAIN caches

\* ---- C29
\* This step belongs to a read: the arrival of a GET /x or the return of its
\* acast.get, a GET /debug/x, or a GET /x/k.
ReadWork ==
  \/ \E q \in Queries : GetArrival(q)
  \/ \E s \in Slots : req[s].op = "get" /\ req'[s].op = "idle"
  \/ served' = served + 1 /\ req' = req /\ last'.op \in {"debug", "item"}

\* C29: no step of a GET /x, a GET /x/k or a GET /debug/x, whether it hits,
\* misses, is rejected or fails upstream, changes cache_timestamps (no entry
\* added, removed or changed); the map changes only in the step in which a
\* webhook, a POST /:id or a DELETE /:id arrives.
C29_ReadsKeepTimestamps ==
  [][/\ ReadWork => cache_timestamps' = cache_timestamps
     /\ cache_timestamps' # cache_timestamps =>
          \E y \in DOMAIN cache_timestamps' : InvalidationStep(y)]_vars

\* C29 witness: a GET /x/k was answered with the episode, from a list a
\* GET /x had stored under a timestamp that an invalidation wrote.
C29_Witness ==
  /\ last.op = "item" /\ last.body.kind = "item" /\ ~last.fetched
  /\ CurrentTimestamp(cache_timestamps, Watched) > 0
  /\ key_hi = CurrentTimestamp(cache_timestamps, Watched)

====
